---- MODULE Spec2Model ----
(***************************************************************************)
(* Model of the blog-post service of technical/posts: the in-memory        *)
(* MapRepository (a map of posts, the nextID counter and a sync.RWMutex),  *)
(* its bootstrap from blog_data.json, and the PostService policy layer on  *)
(* top of it.  Request goroutines are the processes of the model; every    *)
(* statement of a repository method that reads or writes shared state is   *)
(* one step, so that the mutual exclusion the methods rely on is something *)
(* the model checks, not something it assumes.                             *)
(***************************************************************************)
EXTENDS Integers, Sequences, FiniteSets, TLC

(* ------------------------------ bounds -------------------------------- *)

\* Largest identifier a caller passes (callers pass 0..MaxArgID).
MaxArgID == 2
\* Number of requests the callers make in one run.
MaxCalls == 3

\* The request goroutines: two, so that every pair of methods can overlap.
Procs == {1, 2}
ArgIDs == 0..MaxArgID
\* the identifiers the callers of PostService pass: a negative one as well
ServiceIDs == {-1} \cup ArgIDs

(* ------------------------------- data --------------------------------- *)

\* error values
Nil == "nil"
ErrPostNotFound == "ErrPostNotFound"
InvalidPostIDError == "InvalidPostIDError"
\* errors.New("invalid post ID") evaluated at the call: a fresh error value,
\* equal to no package-level error.
NewInvalidPostID == "errors.New(invalid post ID)"
ValidationErrors == "validator.ValidationErrors"

\* err.Error()
InvalidIDText == "invalid post ID"
ErrorText(err) ==
  CASE err = InvalidPostIDError -> InvalidIDText
    [] err = NewInvalidPostID -> InvalidIDText
    [] err = ErrPostNotFound -> "post not found"
    [] OTHER -> err

\* PostCreateUpdate values the callers send
Data(t, c, a) == [Title |-> t, Content |-> c, Author |-> a]
Valid1 == Data("t1", "c1", "a1")
Valid2 == Data("t2", "c2", "a2")
NoTitle == Data("", "c1", "a1")
NoContent == Data("t1", "", "a1")
NoAuthor == Data("t1", "c1", "")
ZeroData == Data("", "", "")
DataSet == {Valid1, Valid2, NoTitle}
\* what the callers of PostService send: each required field missing in turn
ServiceDataSet == {Valid1, Valid2, NoTitle, NoContent, NoAuthor}

\* PostRead
PostRead(id, t, c, a) == [ID |-> id, Title |-> t, Content |-> c, Author |-> a]
ZeroPost == PostRead(0, "", "", "")

\* What os.ReadFile + json.Unmarshal of blog_data.json can give: a failure
\* of either, or the sequence of posts of the file.
ReadError == "ReadError"
ParseError == "ParseError"
File(e, ps) == [err |-> e, posts |-> ps]
FileEmpty == File(Nil, << >>)
FileTwo == File(Nil, << PostRead(1, "t1", "c1", "a1"), PostRead(2, "t2", "c2", "a2") >>)
\* a file json.Unmarshal accepts all the same: an identifier twice, an
\* identifier that is not positive, an empty title
FileOdd == File(Nil, << PostRead(2, "t1", "c1", "a1"), PostRead(2, "t2", "c2", "a2"),
                        PostRead(0, "", "c2", "a2") >>)
BootFiles == {File(ReadError, << >>), File(ParseError, << >>), FileEmpty, FileTwo, FileOdd}
\* a file whose only identifier is negative
FileNegative == File(Nil, << PostRead(-1, "t1", "c1", "a1") >>)
LoaderFiles == BootFiles \cup {FileNegative}

EmptyMap == [k \in {} |-> ZeroPost]

\* m[k] = v of a Go map
MapSet(m, k, v) == [x \in DOMAIN m \cup {k} |-> IF x = k THEN v ELSE m[x]]
\* delete(m, k) of a Go map: no effect when k is absent
MapDelete(m, k) == [x \in DOMAIN m \ {k} |-> m[x]]

(* ------------------------------ state --------------------------------- *)

VARIABLES
  phase,      \* main: "start", "serving" (ListenAndServe) or "panicked"
  file,       \* what reading and parsing blog_data.json gives
  posts,      \* MapRepository.posts
  nextID,     \* MapRepository.nextID
  mutex,      \* MapRepository.mutex: the goroutine in Lock or past it, those past RLock
  pc,         \* per goroutine: the statement it is at
  frame,      \* per goroutine: the service method, the repository method and their arguments
  local,      \* per goroutine: the locals of the repository method it is in
  ret,        \* per goroutine: the values last returned to it
  resp,       \* per goroutine: the handler serving its request and the status it wrote
  dec,        \* the decode program: message, the locals of decode and its result
  createdIDs, \* history: the identifiers Create has handed out, in the order of the inserts
  everKeys,   \* history: every key that has been in posts
  deleted,    \* history: the keys Delete has removed from posts
  lastRet,    \* history: per key, the record last returned for it, and by which method
  absStore,   \* history: the abstract (map, counter) store, changed once per operation
  absRet,     \* history: per goroutine, the result of its operation on absStore
  calls       \* history: the number of requests made so far

progVars == << phase, file, posts, nextID, mutex, pc, frame, local, ret, resp >>
histVars == << createdIDs, everKeys, deleted, lastRet, absStore, absRet, calls >>
vars == << phase, file, posts, nextID, mutex, pc, frame, local, ret, resp, dec,
           createdIDs, everKeys, deleted, lastRet, absStore, absRet, calls >>

NoFrame == [svc |-> "none", op |-> "none", id |-> 0, data |-> ZeroData]
NoLocal == [post |-> ZeroPost, seen |-> {}, out |-> << >>]
NoRet == [val |-> ZeroPost, list |-> << >>, err |-> Nil]
\* no handler is serving, no status is written
NoResp == [h |-> "none", status |-> 0]
\* decode is not running
NoDec == [pc |-> "none", message |-> << >>, i |-> 0,
          current |-> 0, prev |-> 0, prev_prev |-> 0, result |-> 0]
Result(v, e) == [val |-> v, list |-> << >>, err |-> e]
ListResult(l) == [val |-> ZeroPost, list |-> l, err |-> Nil]
NoAbsRet == [val |-> ZeroPost, set |-> {}, err |-> Nil]
Returned(r, m) == [post |-> r, by |-> m]

(* ---------------------------- bootstrap ------------------------------- *)

\* The loop of NewMapRepository over the posts of the file, from index i on:
\* the map after inserting each post under its own ID.
RECURSIVE SeedPosts(_, _, _)
SeedPosts(ps, i, m) ==
  IF i > Len(ps) THEN m
  ELSE SeedPosts(ps, i + 1, MapSet(m, ps[i].ID, ps[i]))

\* The same loop's maxID, which starts at 0.
RECURSIVE SeedMaxID(_, _, _)
SeedMaxID(ps, i, maxID) ==
  IF i > Len(ps) THEN maxID
  ELSE SeedMaxID(ps, i + 1, IF ps[i].ID > maxID THEN ps[i].ID ELSE maxID)

SeedNextIDLast(ps) == IF Len(ps) = 0 THEN 1 ELSE ps[Len(ps)].ID + 1
SeedNextIDCount(ps) == Len(ps) + 1
\* repo.nextID = maxID + 1
SeedNextID(ps) == SeedMaxID(ps, 1, 0) + 1

(* ------------------------ abstract store ------------------------------ *)
\* The sequential (map, counter) store the repository is compared with.

AbsResult(v, e) == [val |-> v, set |-> {}, err |-> e]
AbsGetByID(s, id) ==
  IF id \in DOMAIN s.posts THEN AbsResult(s.posts[id], Nil)
  ELSE AbsResult(ZeroPost, ErrPostNotFound)
AbsGetAll(s) == [val |-> ZeroPost, set |-> {s.posts[k] : k \in DOMAIN s.posts}, err |-> Nil]
AbsCreatePost(s, d) == PostRead(s.nextID, d.Title, d.Content, d.Author)
AbsCreate(s, d) ==
  [posts |-> MapSet(s.posts, s.nextID, AbsCreatePost(s, d)), nextID |-> s.nextID + 1]
AbsUpdate(s, id, d) ==
  IF id \in DOMAIN s.posts
  THEN [s EXCEPT !.posts = MapSet(s.posts, id, PostRead(id, d.Title, d.Content, d.Author))]
  ELSE s
AbsUpdateRet(s, id, d) ==
  IF id \in DOMAIN s.posts
  THEN AbsResult(PostRead(id, d.Title, d.Content, d.Author), Nil)
  ELSE AbsResult(ZeroPost, ErrPostNotFound)
AbsDelete(s, id) == [s EXCEPT !.posts = MapDelete(s.posts, id)]

(* ------------------------------ Init ---------------------------------- *)

InitWith(files, decs) ==
  /\ phase = "start"
  /\ file \in files
  /\ posts = EmptyMap
  /\ nextID = 0
  /\ mutex = [writer |-> {}, readers |-> {}]
  /\ pc = [p \in Procs |-> "idle"]
  /\ frame = [p \in Procs |-> NoFrame]
  /\ local = [p \in Procs |-> NoLocal]
  /\ ret = [p \in Procs |-> NoRet]
  /\ resp = [p \in Procs |-> NoResp]
  /\ dec \in decs
  /\ createdIDs = << >>
  /\ everKeys = {}
  /\ deleted = {}
  /\ lastRet = [k \in {} |-> Returned(ZeroPost, "none")]
  /\ absStore = [posts |-> EmptyMap, nextID |-> 0]
  /\ absRet = [p \in Procs |-> NoAbsRet]
  /\ calls = 0

InitFrom(files) == InitWith(files, {NoDec})

Init == InitFrom(BootFiles)

\* main: NewMapRepository, which panics when the file cannot be read or
\* parsed, and otherwise seeds the map and the counter; then the server runs.
NewMapRepository ==
  /\ phase = "start"
  /\ IF file.err # Nil
     THEN /\ phase' = "panicked"
          /\ UNCHANGED << posts, nextID, everKeys, absStore >>
     ELSE /\ phase' = "serving"
          /\ posts' = SeedPosts(file.posts, 1, EmptyMap)
          /\ nextID' = SeedNextID(file.posts)
          /\ everKeys' = {file.posts[i].ID : i \in 1..Len(file.posts)}
          /\ absStore' = [posts |-> posts', nextID |-> nextID']
  /\ UNCHANGED << resp, file, dec, mutex, pc, frame, local, ret, createdIDs, deleted, lastRet, absRet, calls >>

(* --------------------------- the RWMutex ------------------------------ *)

\* Which lock each repository method takes: RLock in GetAll and GetByID,
\* Lock in Create, Update and Delete.
LockKindCreateShared(op) == IF op \in {"GetAll", "GetByID", "Create"} THEN "R" ELSE "W"
LockKindDeleteShared(op) == IF op \in {"GetAll", "GetByID", "Delete"} THEN "R" ELSE "W"
LockKindAllShared(op) == "R"
LockKindUpdateShared(op) == IF op \in {"GetAll", "GetByID", "Update"} THEN "R" ELSE "W"
LockKind(op) == IF op \in {"GetAll", "GetByID"} THEN "R" ELSE "W"

LockPc(op) == IF LockKind(op) = "R" THEN "RLock" ELSE "Lock"
\* without the defer: GetByID returns with the read lock held
UnlockPcGetByIDKeepsLock(op) ==
  IF op = "GetByID" THEN "done" ELSE IF LockKind(op) = "R" THEN "RUnlock" ELSE "Unlock"
\* without the defer: Update returns with the lock held
UnlockPcUpdateKeepsLock(op) ==
  IF op = "Update" THEN "done" ELSE IF LockKind(op) = "R" THEN "RUnlock" ELSE "Unlock"
UnlockPc(op) == IF LockKind(op) = "R" THEN "RUnlock" ELSE "Unlock"

\* sync.RWMutex.Lock: one writer at a time; once a writer has announced
\* itself, it waits for the readers inside to leave, and no reader enters.
Lock(p) ==
  /\ pc[p] = "Lock"
  /\ mutex.writer = {}
  /\ mutex' = [mutex EXCEPT !.writer = {p}]
  /\ pc' = [pc EXCEPT ![p] = IF mutex.readers = {} THEN "cs" ELSE "LockWait"]
  /\ UNCHANGED << resp, phase, file, dec, posts, nextID, frame, local, ret >>
  /\ UNCHANGED histVars

LockWait(p) ==
  /\ pc[p] = "LockWait"
  /\ mutex.readers = {}
  /\ pc' = [pc EXCEPT ![p] = "cs"]
  /\ UNCHANGED << resp, phase, file, dec, posts, nextID, mutex, frame, local, ret >>
  /\ UNCHANGED histVars

\* sync.RWMutex.RLock: blocks while a writer holds or awaits the lock.
RLock(p) ==
  /\ pc[p] = "RLock"
  /\ mutex.writer = {}
  /\ mutex' = [mutex EXCEPT !.readers = @ \cup {p}]
  /\ pc' = [pc EXCEPT ![p] = "cs"]
  /\ UNCHANGED << resp, phase, file, dec, posts, nextID, frame, local, ret >>
  /\ UNCHANGED histVars

\* Where a goroutine is once the repository method has returned: in
\* PostService.UpdatePost after its GetByID pre-check, or back at its caller.
AfterReturn(f) ==
  IF f.svc = "UpdatePost" /\ f.op = "GetByID" THEN "ret" ELSE "done"

\* defer r.mutex.Unlock(), then the return
Unlock(p) ==
  /\ pc[p] = "Unlock"
  /\ mutex' = [mutex EXCEPT !.writer = {}]
  /\ pc' = [pc EXCEPT ![p] = AfterReturn(frame[p])]
  /\ UNCHANGED << resp, phase, file, dec, posts, nextID, frame, local, ret >>
  /\ UNCHANGED histVars

\* defer r.mutex.RUnlock(), then the return
RUnlock(p) ==
  /\ pc[p] = "RUnlock"
  /\ mutex' = [mutex EXCEPT !.readers = @ \ {p}]
  /\ pc' = [pc EXCEPT ![p] = AfterReturn(frame[p])]
  /\ UNCHANGED << resp, phase, file, dec, posts, nextID, frame, local, ret >>
  /\ UNCHANGED histVars

\* the goroutine is inside the critical section of its repository method
InCS(p) == pc[p] \in {"cs", "L89", "L90", "L108", "Unlock", "RUnlock"}
IsReader(p) == frame[p].op \in {"GetAll", "GetByID"}
IsWriter(p) == frame[p].op \in {"Create", "Update", "Delete"}

(* ------------------------- MapRepository ------------------------------ *)

\* createdPost := PostRead{ID: r.nextID, Title: ..., Content: ..., Author: ...}
CreatedPostSwapped(n, d) == PostRead(n, d.Content, d.Title, d.Author)
CreatedPost(n, d) == PostRead(n, d.Title, d.Content, d.Author)

\* updatedPost := PostRead{ID: id, Title: ..., Content: ..., Author: ...}
UpdatedPostNoID(id, d) == PostRead(0, d.Title, d.Content, d.Author)
UpdatedPostForgetsAuthor(id, d) == PostRead(id, d.Title, d.Content, "")
UpdatedPost(id, d) == PostRead(id, d.Title, d.Content, d.Author)

\* r.nextID += 1
IncNextIDNot(n) == n
\* r.nextID += 2: every second identifier is skipped
IncNextIDByTwo(n) == n + 2
IncNextID(n) == n + 1

\* _, ok := r.posts[id]
UpdateFoundAlways(m, id) == TRUE
UpdateFound(m, id) == id \in DOMAIN m

\* Delete returns nil whether or not the id was present
DeleteErrAbsent(m, id) == IF id \in DOMAIN m THEN Nil ELSE ErrPostNotFound
DeleteErr(m, id) == Nil

\* Delete does not touch r.nextID
DeleteNextIDReclaim(n, id) == IF id = n - 1 THEN id ELSE n
DeleteNextID(n, id) == n

\* GetAll: slices.Collect(maps.Values(r.posts)) walks the map one value at a
\* time and returns the values collected.  Go leaves the order of the walk
\* unspecified; the model walks in key order, and nothing reads the order.
Smallest(S) == CHOOSE k \in S : \A j \in S : k <= j
GetAll_65(p) ==
  /\ pc[p] = "cs"
  /\ frame[p].op = "GetAll"
  /\ LET rest == DOMAIN posts \ local[p].seen IN
     IF rest = {}
     THEN /\ ret' = [ret EXCEPT ![p] = ListResult(local[p].out)]
          /\ absRet' = [absRet EXCEPT ![p] = AbsGetAll(absStore)]
          /\ local' = [local EXCEPT ![p] = NoLocal]
          /\ pc' = [pc EXCEPT ![p] = UnlockPc("GetAll")]
     ELSE /\ local' = [local EXCEPT ![p].seen = @ \cup {Smallest(rest)},
                                     ![p].out = Append(@, posts[Smallest(rest)])]
          /\ UNCHANGED << ret, absRet, pc >>
  /\ UNCHANGED << resp, phase, file, dec, posts, nextID, mutex, frame >>
  /\ UNCHANGED << createdIDs, everKeys, deleted, lastRet, absStore, calls >>

\* GetByID, lines 72-76: val, ok := r.posts[id]; without ok, the zero record
\* and ErrPostNotFound
GetByIDResultZero(m, id) ==
  IF id \in DOMAIN m THEN Result(m[id], Nil) ELSE Result(ZeroPost, Nil)
GetByIDResult(m, id) ==
  IF id \in DOMAIN m THEN Result(m[id], Nil) ELSE Result(ZeroPost, ErrPostNotFound)

GetByID_72(p) ==
  /\ pc[p] = "cs"
  /\ frame[p].op = "GetByID"
  /\ ret' = [ret EXCEPT ![p] = GetByIDResult(posts, frame[p].id)]
  /\ absRet' = [absRet EXCEPT ![p] = AbsGetByID(absStore, frame[p].id)]
  /\ pc' = [pc EXCEPT ![p] = UnlockPc("GetByID")]
  /\ UNCHANGED << resp, phase, file, dec, posts, nextID, mutex, frame, local >>
  /\ UNCHANGED << createdIDs, everKeys, deleted, lastRet, absStore, calls >>

\* Create, lines 83-88: the record is built with the counter's value
Create_83(p) ==
  /\ pc[p] = "cs"
  /\ frame[p].op = "Create"
  /\ local' = [local EXCEPT ![p].post = CreatedPost(nextID, frame[p].data)]
  /\ pc' = [pc EXCEPT ![p] = "L89"]
  /\ UNCHANGED << resp, phase, file, dec, posts, nextID, mutex, frame, ret >>
  /\ UNCHANGED histVars

\* Create, line 89: r.posts[r.nextID] = createdPost
Create_89(p) ==
  /\ pc[p] = "L89"
  /\ posts' = MapSet(posts, nextID, local[p].post)
  /\ createdIDs' = Append(createdIDs, local[p].post.ID)
  /\ everKeys' = everKeys \cup {nextID}
  /\ pc' = [pc EXCEPT ![p] = "L90"]
  /\ UNCHANGED << resp, phase, file, dec, nextID, mutex, frame, local, ret >>
  /\ UNCHANGED << deleted, lastRet, absStore, absRet, calls >>

\* Create, lines 90-91: r.nextID += 1; return createdPost, nil
Create_90(p) ==
  /\ pc[p] = "L90"
  /\ nextID' = IncNextID(nextID)
  /\ ret' = [ret EXCEPT ![p] = Result(local[p].post, Nil)]
  /\ lastRet' = MapSet(lastRet, local[p].post.ID, Returned(local[p].post, "Create"))
  /\ absStore' = AbsCreate(absStore, frame[p].data)
  /\ absRet' = [absRet EXCEPT ![p] = AbsResult(AbsCreatePost(absStore, frame[p].data), Nil)]
  /\ local' = [local EXCEPT ![p] = NoLocal]
  /\ pc' = [pc EXCEPT ![p] = UnlockPc("Create")]
  /\ UNCHANGED << resp, phase, file, dec, posts, mutex, frame >>
  /\ UNCHANGED << createdIDs, everKeys, deleted, calls >>

\* Update, lines 98-101: the existence check, and the NotFound return
Update_98(p) ==
  /\ pc[p] = "cs"
  /\ frame[p].op = "Update"
  /\ IF UpdateFound(posts, frame[p].id)
     THEN /\ pc' = [pc EXCEPT ![p] = "L108"]
          /\ UNCHANGED << ret, absRet >>
     ELSE /\ ret' = [ret EXCEPT ![p] = Result(ZeroPost, ErrPostNotFound)]
          /\ absRet' = [absRet EXCEPT ![p] = AbsUpdateRet(absStore, frame[p].id, frame[p].data)]
          /\ pc' = [pc EXCEPT ![p] = UnlockPc("Update")]
  /\ UNCHANGED << resp, phase, file, dec, posts, nextID, mutex, frame, local >>
  /\ UNCHANGED << createdIDs, everKeys, deleted, lastRet, absStore, calls >>

\* Update, lines 102-109: r.posts[id] = updatedPost; return updatedPost, nil
Update_108(p) ==
  /\ pc[p] = "L108"
  /\ posts' = MapSet(posts, frame[p].id, UpdatedPost(frame[p].id, frame[p].data))
  /\ ret' = [ret EXCEPT ![p] = Result(UpdatedPost(frame[p].id, frame[p].data), Nil)]
  /\ everKeys' = everKeys \cup {frame[p].id}
  /\ lastRet' = MapSet(lastRet, frame[p].id, Returned(UpdatedPost(frame[p].id, frame[p].data), "Update"))
  /\ absStore' = AbsUpdate(absStore, frame[p].id, frame[p].data)
  /\ absRet' = [absRet EXCEPT ![p] = AbsUpdateRet(absStore, frame[p].id, frame[p].data)]
  /\ pc' = [pc EXCEPT ![p] = UnlockPc("Update")]
  /\ UNCHANGED << resp, phase, file, dec, nextID, mutex, frame, local >>
  /\ UNCHANGED << createdIDs, deleted, calls >>

\* Delete, lines 116-117: delete(r.posts, id); return nil
Delete_116(p) ==
  /\ pc[p] = "cs"
  /\ frame[p].op = "Delete"
  /\ posts' = MapDelete(posts, frame[p].id)
  /\ nextID' = DeleteNextID(nextID, frame[p].id)
  /\ ret' = [ret EXCEPT ![p] = Result(ZeroPost, DeleteErr(posts, frame[p].id))]
  /\ deleted' = IF frame[p].id \in DOMAIN posts THEN deleted \cup {frame[p].id} ELSE deleted
  /\ lastRet' = MapDelete(lastRet, frame[p].id)
  /\ absStore' = AbsDelete(absStore, frame[p].id)
  /\ absRet' = [absRet EXCEPT ![p] = AbsResult(ZeroPost, Nil)]
  /\ pc' = [pc EXCEPT ![p] = UnlockPc("Delete")]
  /\ UNCHANGED << resp, phase, file, dec, mutex, frame, local >>
  /\ UNCHANGED << createdIDs, everKeys, calls >>

(* ------------------- callers of the repository ------------------------ *)
\* A goroutine calling a MapRepository method directly, as the repository's
\* tests do; the call leaves it at the method's first statement, the lock.

\* main: http.ListenAndServe comes after NewMapRepository has returned, so
\* a request is accepted only by the running server.
AcceptingFromStart(ph) == ph # "panicked"
Accepting(ph) == ph = "serving"

Enter(p, svc, op, id, d) ==
  /\ Accepting(phase)
  /\ pc[p] = "idle"
  /\ calls < MaxCalls
  /\ frame' = [frame EXCEPT ![p] = [svc |-> svc, op |-> op, id |-> id, data |-> d]]
  /\ pc' = [pc EXCEPT ![p] = LockPc(op)]
  /\ calls' = calls + 1
  /\ UNCHANGED << resp, phase, file, dec, posts, nextID, mutex, local, ret >>
  /\ UNCHANGED << createdIDs, everKeys, deleted, lastRet, absStore, absRet >>

\* A service method that returns err before it calls the repository.
Reject(p, svc, id, d, err) ==
  /\ Accepting(phase)
  /\ pc[p] = "idle"
  /\ calls < MaxCalls
  /\ frame' = [frame EXCEPT ![p] = [svc |-> svc, op |-> "none", id |-> id, data |-> d]]
  /\ ret' = [ret EXCEPT ![p] = Result(ZeroPost, err)]
  /\ pc' = [pc EXCEPT ![p] = "done"]
  /\ calls' = calls + 1
  /\ UNCHANGED << resp, phase, file, dec, posts, nextID, mutex, local >>
  /\ UNCHANGED << createdIDs, everKeys, deleted, lastRet, absStore, absRet >>

CallGetAll(p) == Enter(p, "none", "GetAll", 0, ZeroData)
CallGetByID(p, id) == Enter(p, "none", "GetByID", id, ZeroData)
CallCreate(p, d) == Enter(p, "none", "Create", 0, d)
CallUpdate(p, id, d) == Enter(p, "none", "Update", id, d)
CallDelete(p, id) == Enter(p, "none", "Delete", id, ZeroData)

(* --------------------------- PostService ------------------------------ *)

\* PostCreateUpdate.Validate: validate.Struct with `required` on the three
\* fields, which fails on an empty string.
ValidateTitleOnly(d) ==
  IF d.Title = "" THEN ValidationErrors ELSE Nil
Validate(d) ==
  IF d.Title = "" \/ d.Content = "" \/ d.Author = "" THEN ValidationErrors ELSE Nil

\* if id <= 0, the first statement of GetPostByID, UpdatePost and DeletePost
IsInvalidIDNegative(id) == id < 0
IsInvalidID(id) == id <= 0

GetAllPosts(p) == Enter(p, "GetAllPosts", "GetAll", 0, ZeroData)

GetPostByID(p, id) ==
  IF IsInvalidID(id)
  THEN Reject(p, "GetPostByID", id, ZeroData, NewInvalidPostID)
  ELSE Enter(p, "GetPostByID", "GetByID", id, ZeroData)

CreatePost(p, d) ==
  IF Validate(d) # Nil
  THEN Reject(p, "CreatePost", 0, d, Validate(d))
  ELSE Enter(p, "CreatePost", "Create", 0, d)

\* UpdatePost up to its call of repo.GetByID
\* the two checks in the other order: Validate before the id
UpdatePostValidatesFirst(p, id, d) ==
  IF Validate(d) # Nil
  THEN Reject(p, "UpdatePost", id, d, Validate(d))
  ELSE IF IsInvalidID(id)
  THEN Reject(p, "UpdatePost", id, d, InvalidPostIDError)
  ELSE Enter(p, "UpdatePost", "GetByID", id, d)
UpdatePost(p, id, d) ==
  IF IsInvalidID(id)
  THEN Reject(p, "UpdatePost", id, d, InvalidPostIDError)
  ELSE IF Validate(d) # Nil
  THEN Reject(p, "UpdatePost", id, d, Validate(d))
  ELSE Enter(p, "UpdatePost", "GetByID", id, d)

\* UpdatePost from the return of repo.GetByID: the error is returned, or
\* repo.Update is called
UpdatePost_56(p) ==
  /\ pc[p] = "ret"
  /\ frame[p].svc = "UpdatePost"
  /\ frame[p].op = "GetByID"
  /\ IF ret[p].err # Nil
     THEN /\ ret' = [ret EXCEPT ![p] = Result(ZeroPost, ret[p].err)]
          /\ pc' = [pc EXCEPT ![p] = "done"]
          /\ frame' = [frame EXCEPT ![p].op = "none"]
     ELSE /\ ret' = [ret EXCEPT ![p] = NoRet]
          /\ frame' = [frame EXCEPT ![p].op = "Update"]
          /\ pc' = [pc EXCEPT ![p] = LockPc("Update")]
  /\ absRet' = [absRet EXCEPT ![p] = NoAbsRet]
  /\ UNCHANGED << resp, phase, file, dec, posts, nextID, mutex, local >>
  /\ UNCHANGED << createdIDs, everKeys, deleted, lastRet, absStore, calls >>

DeletePost(p, id) ==
  IF IsInvalidID(id)
  THEN Reject(p, "DeletePost", id, ZeroData, NewInvalidPostID)
  ELSE Enter(p, "DeletePost", "Delete", id, ZeroData)

\* The caller has its result; the goroutine is free for the next request.
Return(p) ==
  /\ pc[p] = "done"
  /\ pc' = [pc EXCEPT ![p] = "idle"]
  /\ frame' = [frame EXCEPT ![p] = NoFrame]
  /\ ret' = [ret EXCEPT ![p] = NoRet]
  /\ absRet' = [absRet EXCEPT ![p] = NoAbsRet]
  /\ UNCHANGED << resp, phase, file, dec, posts, nextID, mutex, local >>
  /\ UNCHANGED << createdIDs, everKeys, deleted, lastRet, absStore, calls >>

(* ------------------------------ Handler ------------------------------- *)
\* net/http runs each request in its own goroutine; the mux hands it to the
\* Handler method of its path and verb, which parses the request, calls the
\* PostService method of the same name and writes a status from its result.

StatusOK == 200
StatusCreated == 201
StatusNoContent == 204
StatusBadRequest == 400
StatusNotFound == 404
StatusInternalServerError == 500

\* The path after "/posts/", as its characters.  The mux keeps the empty
\* rest to itself (RegisterRoutes, line 36).
IDStrings == { << "-", "1" >>, << "0" >>, << "1" >>, << "2" >>, << "x" >>, << "-" >> }

\* strconv.Atoi: an optional sign, then one decimal digit or more
DigitChars == << "0", "1", "2", "3", "4", "5", "6", "7", "8", "9" >>
IsDigit(c) == \E i \in 1..Len(DigitChars) : DigitChars[i] = c
DigitVal(c) == (CHOOSE i \in 1..Len(DigitChars) : DigitChars[i] = c) - 1
RECURSIVE DigitsVal(_, _, _)
DigitsVal(s, i, acc) ==
  IF i > Len(s) THEN acc ELSE DigitsVal(s, i + 1, 10 * acc + DigitVal(s[i]))
Atoi(s) ==
  LET signed == Len(s) > 0 /\ s[1] \in {"+", "-"}
      digits == IF signed THEN Tail(s) ELSE s
  IN  IF Len(digits) = 0 \/ \E i \in 1..Len(digits) : ~IsDigit(digits[i])
      THEN [ok |-> FALSE, val |-> 0]
      ELSE [ok |-> TRUE,
            val |-> IF signed /\ s[1] = "-" THEN 0 - DigitsVal(digits, 1, 0)
                    ELSE DigitsVal(digits, 1, 0)]

\* A request body: text that is no JSON, or a JSON object with some of the
\* keys title, content and author.
Malformed == [json |-> FALSE, keys |-> {}, title |-> "", content |-> "", author |-> ""]
JSONObject(keys, t, c, a) == [json |-> TRUE, keys |-> keys, title |-> t, content |-> c, author |-> a]
Bodies == { Malformed,
            JSONObject({"title", "content", "author"}, "t1", "c1", "a1"),
            JSONObject({"title", "content", "author"}, "t2", "c2", "a2"),
            JSONObject({"content", "author"}, "", "c1", "a1") }

\* json.NewDecoder(r.Body).Decode(&req): a key the object lacks leaves the
\* field of req at its zero value, the empty string
Decode(b) ==
  IF ~b.json THEN [ok |-> FALSE, req |-> ZeroData]
  ELSE [ok |-> TRUE,
        req |-> Data(IF "title" \in b.keys THEN b.title ELSE "",
                     IF "content" \in b.keys THEN b.content ELSE "",
                     IF "author" \in b.keys THEN b.author ELSE "")]

\* Atoi of each path and Decode of each body the requests carry
ParsedID == [s \in IDStrings |-> Atoi(s)]
DecodedBody == [b \in Bodies |-> Decode(b)]

\* errors.Is(err, target) for errors made by errors.New: the same value
ErrorsIs(err, target) == err = target

\* The status each Handler method writes for the error its PostService
\* method returned.
\* UpdatePost without its errors.Is(err, ErrPostNotFound) branch
HandlerStatusUpdateNoNotFound(h, err) ==
  CASE h = "GetAllPosts" ->
         IF err # Nil THEN StatusInternalServerError ELSE StatusOK
    [] h = "GetPostByID" ->
         IF err = Nil THEN StatusOK
         ELSE IF ErrorsIs(err, ErrPostNotFound) THEN StatusNotFound
         ELSE IF ErrorsIs(err, InvalidPostIDError) THEN StatusBadRequest
         ELSE StatusInternalServerError
    [] h = "CreatePost" ->
         IF err = Nil THEN StatusCreated ELSE StatusBadRequest
    [] h = "UpdatePost" ->
         IF err = Nil THEN StatusOK ELSE StatusBadRequest
    [] h = "DeletePost" ->
         IF err # Nil THEN StatusInternalServerError ELSE StatusNoContent
HandlerStatus(h, err) ==
  CASE h = "GetAllPosts" ->
         IF err # Nil THEN StatusInternalServerError ELSE StatusOK
    [] h = "GetPostByID" ->
         IF err = Nil THEN StatusOK
         ELSE IF ErrorsIs(err, ErrPostNotFound) THEN StatusNotFound
         ELSE IF ErrorsIs(err, InvalidPostIDError) THEN StatusBadRequest
         ELSE StatusInternalServerError
    [] h = "CreatePost" ->
         IF err = Nil THEN StatusCreated ELSE StatusBadRequest
    [] h = "UpdatePost" ->
         IF err = Nil THEN StatusOK
         ELSE IF ErrorsIs(err, ErrPostNotFound) THEN StatusNotFound
         ELSE StatusBadRequest
    [] h = "DeletePost" ->
         IF err # Nil THEN StatusInternalServerError ELSE StatusNoContent

\* http.Error(w, "Invalid post ID" or "Invalid request body", 400): the
\* handler answers before it calls PostService.
BadRequest(p, h) ==
  /\ Accepting(phase)
  /\ pc[p] = "idle"
  /\ calls < MaxCalls
  /\ resp' = [resp EXCEPT ![p] = [h |-> h, status |-> StatusBadRequest]]
  /\ pc' = [pc EXCEPT ![p] = "responded"]
  /\ calls' = calls + 1
  /\ UNCHANGED << phase, file, dec, posts, nextID, mutex, frame, local, ret >>
  /\ UNCHANGED << createdIDs, everKeys, deleted, lastRet, absStore, absRet >>

HandlerGetAllPosts(p) == GetAllPosts(p)

HandlerGetPostByID(p, idStr) ==
  IF ~ParsedID[idStr].ok THEN BadRequest(p, "GetPostByID")
  ELSE GetPostByID(p, ParsedID[idStr].val)

HandlerCreatePost(p, body) ==
  IF ~DecodedBody[body].ok THEN BadRequest(p, "CreatePost")
  ELSE CreatePost(p, DecodedBody[body].req)

HandlerUpdatePost(p, idStr, body) ==
  IF ~ParsedID[idStr].ok THEN BadRequest(p, "UpdatePost")
  ELSE IF ~DecodedBody[body].ok THEN BadRequest(p, "UpdatePost")
  ELSE UpdatePost(p, ParsedID[idStr].val, DecodedBody[body].req)

HandlerDeletePost(p, idStr) ==
  IF ~ParsedID[idStr].ok THEN BadRequest(p, "DeletePost")
  ELSE DeletePost(p, ParsedID[idStr].val)

\* The PostService method has returned: the handler writes its status.
Respond(p) ==
  /\ pc[p] = "done"
  /\ frame[p].svc # "none"
  /\ resp' = [resp EXCEPT ![p] = [h |-> frame[p].svc,
                                  status |-> HandlerStatus(frame[p].svc, ret[p].err)]]
  /\ pc' = [pc EXCEPT ![p] = "responded"]
  /\ UNCHANGED << phase, file, dec, posts, nextID, mutex, frame, local, ret >>
  /\ UNCHANGED histVars

\* The handler returns: the request is over.
HandlerReturn(p) ==
  /\ pc[p] = "responded"
  /\ pc' = [pc EXCEPT ![p] = "idle"]
  /\ frame' = [frame EXCEPT ![p] = NoFrame]
  /\ ret' = [ret EXCEPT ![p] = NoRet]
  /\ resp' = [resp EXCEPT ![p] = NoResp]
  /\ absRet' = [absRet EXCEPT ![p] = NoAbsRet]
  /\ UNCHANGED << phase, file, dec, posts, nextID, mutex, local >>
  /\ UNCHANGED << createdIDs, everKeys, deleted, lastRet, absStore, calls >>

(* --------------------------- specification ---------------------------- *)

\* main's bootstrap, and the statements of the repository methods
RepoStep ==
  \/ NewMapRepository
  \/ \E p \in Procs : Lock(p)
  \/ \E p \in Procs : LockWait(p)
  \/ \E p \in Procs : RLock(p)
  \/ \E p \in Procs : GetAll_65(p)
  \/ \E p \in Procs : GetByID_72(p)
  \/ \E p \in Procs : Create_83(p)
  \/ \E p \in Procs : Create_89(p)
  \/ \E p \in Procs : Create_90(p)
  \/ \E p \in Procs : Update_98(p)
  \/ \E p \in Procs : Update_108(p)
  \/ \E p \in Procs : Delete_116(p)
  \/ \E p \in Procs : Unlock(p)
  \/ \E p \in Procs : RUnlock(p)
  \/ \E p \in Procs : Return(p)

\* goroutines calling the MapRepository methods directly
RepoCall ==
  \/ \E p \in Procs : CallGetAll(p)
  \/ \E p \in Procs, id \in ArgIDs : CallGetByID(p, id)
  \/ \E p \in Procs, d \in DataSet : CallCreate(p, d)
  \/ \E p \in Procs, id \in ArgIDs, d \in DataSet : CallUpdate(p, id, d)
  \/ \E p \in Procs, id \in ArgIDs : CallDelete(p, id)

\* goroutines calling the PostService methods, as the handlers do
ServiceCall ==
  \/ \E p \in Procs : GetAllPosts(p)
  \/ \E p \in Procs, id \in ServiceIDs : GetPostByID(p, id)
  \/ \E p \in Procs, d \in ServiceDataSet : CreatePost(p, d)
  \/ \E p \in Procs, id \in ServiceIDs, d \in ServiceDataSet : UpdatePost(p, id, d)
  \/ \E p \in Procs : UpdatePost_56(p)
  \/ \E p \in Procs, id \in ServiceIDs : DeletePost(p, id)

\* The repository under concurrent direct callers.
Next == RepoStep \/ RepoCall
Spec == Init /\ [][Next]_vars

\* The running service: every request goes through PostService.
ServiceNext == RepoStep \/ ServiceCall
ServiceSpec == Init /\ [][ServiceNext]_vars

\* Both kinds of callers at once.
FullNext == RepoStep \/ RepoCall \/ ServiceCall
FullSpec == Init /\ [][FullNext]_vars

\* Delete reached both ways, directly and through DeletePost, beside the
\* direct Create and GetByID calls that make and look up the records.
DeleteNext ==
  \/ NewMapRepository
  \/ \E p \in Procs, d \in DataSet : CallCreate(p, d)
  \/ \E p \in Procs, id \in ArgIDs : CallGetByID(p, id)
  \/ \E p \in Procs, id \in ArgIDs : CallDelete(p, id)
  \/ \E p \in Procs, id \in ArgIDs : DeletePost(p, id)
  \/ \E p \in Procs : Lock(p)
  \/ \E p \in Procs : LockWait(p)
  \/ \E p \in Procs : RLock(p)
  \/ \E p \in Procs : GetByID_72(p)
  \/ \E p \in Procs : Create_83(p)
  \/ \E p \in Procs : Create_89(p)
  \/ \E p \in Procs : Create_90(p)
  \/ \E p \in Procs : Delete_116(p)
  \/ \E p \in Procs : Unlock(p)
  \/ \E p \in Procs : RUnlock(p)
  \/ \E p \in Procs : Return(p)
DeleteSpec == Init /\ [][DeleteNext]_vars

\* The loader on more files, then Create, GetByID and GetAll called directly.
LoaderInit == InitFrom(LoaderFiles)
LoaderNext ==
  \/ NewMapRepository
  \/ \E p \in Procs : CallGetAll(p)
  \/ \E p \in Procs, id \in ArgIDs : CallGetByID(p, id)
  \/ \E p \in Procs, d \in DataSet : CallCreate(p, d)
  \/ \E p \in Procs : Lock(p)
  \/ \E p \in Procs : LockWait(p)
  \/ \E p \in Procs : RLock(p)
  \/ \E p \in Procs : GetAll_65(p)
  \/ \E p \in Procs : GetByID_72(p)
  \/ \E p \in Procs : Create_83(p)
  \/ \E p \in Procs : Create_89(p)
  \/ \E p \in Procs : Create_90(p)
  \/ \E p \in Procs : Unlock(p)
  \/ \E p \in Procs : RUnlock(p)
  \/ \E p \in Procs : Return(p)
LoaderSpec == LoaderInit /\ [][LoaderNext]_vars

(* ------------------------------ decode -------------------------------- *)

\* The longest message given to decode.
MaxLen == 4

\* The characters of the messages: a string is the sequence of its
\* characters, as for the identifiers of the routes.
DecodeDigits == {"0", "1", "2", "3", "6", "7", "9"}
RECURSIVE Strings(_)
Strings(n) ==
  IF n = 0 THEN {<< >>}
  ELSE LET shorter == Strings(n - 1)
       IN  shorter \cup {Append(s, c) : s \in {t \in shorter : Len(t) = n - 1}, c \in DecodeDigits}
Messages == Strings(MaxLen)

\* the byte of a digit character: '0' is 48
Byte(c) == 48 + DigitVal(c)
\* Go's > on two strings of two bytes each: the order of the first byte at
\* which they differ
StringGreater(a, b) ==
  \/ Byte(a[1]) > Byte(b[1])
  \/ Byte(a[1]) = Byte(b[1]) /\ Byte(a[2]) > Byte(b[2])

\* string(prev_char)+string(char) > "25"
PairAbove25(prev_char, char) == StringGreater(<< prev_char, char >>, << "2", "5" >>)
\* string(prev_char)+string(char) > "26"
PairAbove26(prev_char, char) == StringGreater(<< prev_char, char >>, << "2", "6" >>)

\* main has read message and calls decode(message)
DecodeCall(m) == [NoDec EXCEPT !.pc = "L13", !.message = m]
DecodeReturn(d, r) == [d EXCEPT !.pc = "returned", !.result = r]

\* decode, lines 13-23: the empty message and the leading '0' return 0;
\* otherwise current, prev and prev_prev start at 1 and the loop at i = 1
decode_13 ==
  /\ dec.pc = "L13"
  /\ dec' = IF dec.message = << >> THEN DecodeReturn(dec, 0)
            ELSE IF dec.message[1] = "0" THEN DecodeReturn(dec, 0)
            ELSE [dec EXCEPT !.pc = "L25", !.i = 1,
                             !.current = 1, !.prev = 1, !.prev_prev = 1]
  /\ UNCHANGED << progVars, histVars >>

\* decode, lines 25-42: one turn of the loop; message[i] of the code is
\* dec.message[i + 1] here, sequences being counted from 1
decode_25 ==
  /\ dec.pc = "L25"
  /\ dec.i < Len(dec.message)
  /\ LET char == dec.message[dec.i + 1]
         prev_char == dec.message[dec.i]
         current == IF char = "0" THEN dec.prev_prev
                    ELSE IF prev_char = "0" THEN dec.prev
                    ELSE IF PairAbove26(prev_char, char) THEN dec.prev
                    ELSE dec.prev + dec.prev_prev
     IN  dec' = IF char = "0" /\ (prev_char = "0" \/ Byte(prev_char) > Byte("2"))
                THEN DecodeReturn(dec, 0)
                ELSE [dec EXCEPT !.current = current, !.prev_prev = dec.prev,
                                 !.prev = current, !.i = dec.i + 1]
  /\ UNCHANGED << progVars, histVars >>

\* decode, line 43: return current
decode_43 ==
  /\ dec.pc = "L25"
  /\ dec.i >= Len(dec.message)
  /\ dec' = DecodeReturn(dec, dec.current)
  /\ UNCHANGED << progVars, histVars >>

DecodeInit == InitWith({FileEmpty}, {DecodeCall(m) : m \in Messages})
DecodeNext == decode_13 \/ decode_25 \/ decode_43
DecodeSpec == DecodeInit /\ [][DecodeNext]_vars

\* Callers that never stop calling: a goroutine that is idle may call any
\* repository method again, with no bound on the number of calls.  Only the
\* number of Creates is capped, which caps nextID.
LiveIDs == {1}
Invoke(p, op, id, d) ==
  /\ Accepting(phase)
  /\ pc[p] = "idle"
  /\ op = "Create" => Len(createdIDs) < MaxCalls
  /\ frame' = [frame EXCEPT ![p] = [svc |-> "none", op |-> op, id |-> id, data |-> d]]
  /\ pc' = [pc EXCEPT ![p] = LockPc(op)]
  /\ UNCHANGED << resp, phase, file, dec, posts, nextID, mutex, local, ret >>
  /\ UNCHANGED histVars

\* the statements of goroutine p between its acquiring the lock and its return
Inside(p) ==
  \/ LockWait(p)
  \/ GetAll_65(p)
  \/ GetByID_72(p)
  \/ Create_83(p)
  \/ Create_89(p)
  \/ Create_90(p)
  \/ Update_98(p)
  \/ Update_108(p)
  \/ Delete_116(p)
  \/ Unlock(p)
  \/ RUnlock(p)

LiveNext ==
  \/ NewMapRepository
  \/ \E p \in Procs : Invoke(p, "GetAll", 0, ZeroData)
  \/ \E p \in Procs, id \in LiveIDs : Invoke(p, "GetByID", id, ZeroData)
  \/ \E p \in Procs : Invoke(p, "Create", 0, Valid1)
  \/ \E p \in Procs, id \in LiveIDs : Invoke(p, "Update", id, Valid2)
  \/ \E p \in Procs, id \in LiveIDs : Invoke(p, "Delete", id, ZeroData)
  \/ \E p \in Procs : Lock(p)
  \/ \E p \in Procs : RLock(p)
  \/ \E p \in Procs : Inside(p)
  \/ \E p \in Procs : Return(p)

\* The scheduler runs every goroutine that can run (weak fairness of each
\* goroutine's statements).  sync.RWMutex hands the lock on: a Lock call is
\* not passed over for ever by later Lock calls (the starvation mode of the
\* writers' sync.Mutex), and the readers blocked behind a writer are let in
\* when it unlocks (strong fairness of Lock and RLock).  Callers are free to
\* stop calling.
LiveSpec ==
  /\ Init
  /\ [][LiveNext]_vars
  /\ WF_vars(NewMapRepository)
  /\ \A p \in Procs : WF_vars(Inside(p)) /\ WF_vars(Return(p))
  /\ \A p \in Procs : SF_vars(Lock(p)) /\ SF_vars(RLock(p))

\* The running server: every request comes in through a Handler method.
HandlerNext ==
  \/ NewMapRepository
  \/ \E p \in Procs : HandlerGetAllPosts(p)
  \/ \E p \in Procs, idStr \in IDStrings : HandlerGetPostByID(p, idStr)
  \/ \E p \in Procs, body \in Bodies : HandlerCreatePost(p, body)
  \/ \E p \in Procs, idStr \in IDStrings, body \in Bodies : HandlerUpdatePost(p, idStr, body)
  \/ \E p \in Procs, idStr \in IDStrings : HandlerDeletePost(p, idStr)
  \/ \E p \in Procs : UpdatePost_56(p)
  \/ \E p \in Procs : Lock(p)
  \/ \E p \in Procs : LockWait(p)
  \/ \E p \in Procs : RLock(p)
  \/ \E p \in Procs : GetAll_65(p)
  \/ \E p \in Procs : GetByID_72(p)
  \/ \E p \in Procs : Create_83(p)
  \/ \E p \in Procs : Create_89(p)
  \/ \E p \in Procs : Create_90(p)
  \/ \E p \in Procs : Update_98(p)
  \/ \E p \in Procs : Update_108(p)
  \/ \E p \in Procs : Delete_116(p)
  \/ \E p \in Procs : Unlock(p)
  \/ \E p \in Procs : RUnlock(p)
  \/ \E p \in Procs : Respond(p)
  \/ \E p \in Procs : HandlerReturn(p)
HandlerSpec == Init /\ [][HandlerNext]_vars

(* ============================== claims ================================ *)

Serving == phase = "serving"
Done(p) == pc[p] = "done"
\* the result of p's repository method is set: from its return statement on
Returned_(p, op) == frame[p].op = op /\ pc[p] \in {"Unlock", "RUnlock", "ret", "done"}
SeqRange(q) == {q[i] : i \in 1..Len(q)}
StoreEqualsAbstract == posts = absStore.posts /\ nextID = absStore.nextID
\* a Create is between its insert and its increment of the counter
MidCreate == \E p \in Procs : pc[p] = "L90"

\* C1: however Create calls interleave with each other and with the other
\* methods, no two of them return the same identifier: the identifiers
\* handed out are pairwise distinct, and so are those of any two Create
\* calls whose results are held at the same time.
C1_UniqueCreateIDs ==
  /\ \A i, j \in 1..Len(createdIDs) : i # j => createdIDs[i] # createdIDs[j]
  /\ \A p, q \in Procs :
       (p # q /\ Returned_(p, "Create") /\ Returned_(q, "Create"))
         => ret[p].val.ID # ret[q].val.ID

\* C1 witness: a second Create has inserted while another goroutine's Create
\* waits for the lock.
C1_Witness ==
  \E p, q \in Procs :
    /\ pc[p] = "L90" /\ frame[p].op = "Create"
    /\ pc[q] = "Lock" /\ frame[q].op = "Create"
    /\ Len(createdIDs) = 2

\* C2: the identifiers Create returns are strictly increasing in the order
\* in which the Create calls take effect, whatever Update and Delete calls
\* come between them.
C2_IncreasingCreateIDs ==
  \A i, j \in 1..Len(createdIDs) : i < j => createdIDs[i] < createdIDs[j]

\* C2 witness: two Creates have taken effect and an Update of the first
\* created record has succeeded.
C2_Witness ==
  /\ Len(createdIDs) = 2
  /\ \E p \in Procs :
       /\ Returned_(p, "Update") /\ ret[p].err = Nil
       /\ frame[p].id = createdIDs[1]

\* C3: between operations (no Create is between its insert and its
\* increment, which happen under the write lock), nextID is strictly greater
\* than every key in the map and every key that was ever in the map.
C3_NextIDAboveKeys ==
  (Serving /\ ~MidCreate) => \A k \in everKeys \cup DOMAIN posts : k < nextID

\* C3 witness: a created key has been deleted again, so it is a key that
\* was in the map and no longer is.
C3_Witness ==
  /\ Serving /\ ~MidCreate
  /\ \E k \in everKeys \ DOMAIN posts : k \in SeqRange(createdIDs)

\* C4: two goroutines are inside critical sections of the repository at
\* the same time only if both are in GetAll or GetByID: a Create, Update or
\* Delete is inside alone.
C4_SingleWriterManyReaders ==
  \A p, q \in Procs :
    (p # q /\ InCS(p) /\ InCS(q)) => (IsReader(p) /\ IsReader(q))

\* C4 witness: a GetAll and a GetByID are inside their critical sections at
\* the same time.
C4_Witness ==
  \E p, q \in Procs :
    /\ p # q /\ InCS(p) /\ InCS(q)
    /\ frame[p].op = "GetAll" /\ frame[q].op = "GetByID"

\* C5: the repository refines the sequential (map, counter) store: every
\* method's result is the one the abstract store gives at the single step
\* where the method takes effect, the map and the counter equal the abstract
\* store's except inside a Create between its two writes, and no other
\* goroutine is inside a critical section then.
C5_Linearizable ==
  /\ \A p \in Procs :
       (frame[p].op # "none" /\ pc[p] \in {"Unlock", "RUnlock", "ret", "done"}) =>
         /\ ret[p].err = absRet[p].err
         /\ ret[p].val = absRet[p].val
         /\ SeqRange(ret[p].list) = absRet[p].set
         /\ Len(ret[p].list) = Cardinality(absRet[p].set)
  /\ ~MidCreate => StoreEqualsAbstract
  /\ \A p, q \in Procs : (pc[p] = "L90" /\ p # q) => ~InCS(q)

\* C5 witness: a GetAll has collected two records inside its critical
\* section while a Create, called meanwhile, waits for it to leave.
C5_Witness ==
  \E p, q \in Procs :
    /\ pc[p] = "RUnlock" /\ frame[p].op = "GetAll" /\ Len(ret[p].list) = 2
    /\ pc[q] = "LockWait" /\ frame[q].op = "Create"

\* steps of goroutine p, for the properties of single steps
DeleteStep(p) == pc[p] = "cs" /\ frame[p].op = "Delete" /\ pc'[p] # "cs"
GetByIDStep(p) == pc[p] = "cs" /\ frame[p].op = "GetByID" /\ pc'[p] # "cs"
CreateReturnStep(p) == pc[p] = "L90" /\ pc'[p] # "L90"
UpdateCheckStep(p) == pc[p] = "cs" /\ frame[p].op = "Update" /\ pc'[p] # "cs"
UpdateReturnStep(p) == pc[p] = "L108" /\ pc'[p] # "L108"

\* C6: when UpdatePost(id, valid fields) and DeletePost(id) have both
\* returned and the delete removed the id, the id is absent from the store,
\* and UpdatePost returned either the updated record or ErrPostNotFound; in
\* no state is a key that Delete removed in the map again.
C6_UpdateNeverReinserts ==
  /\ DOMAIN posts \cap deleted = {}
  /\ \A p, q \in Procs :
       ( /\ Done(p) /\ frame[p].svc = "UpdatePost"
         /\ frame[p].id > 0 /\ Validate(frame[p].data) = Nil
         /\ Done(q) /\ frame[q].svc = "DeletePost"
         /\ frame[q].id = frame[p].id /\ frame[p].id \in deleted )
       => /\ frame[p].id \notin DOMAIN posts
          /\ ret[p].err \in {Nil, ErrPostNotFound}
          /\ ret[p].err = Nil =>
               ret[p].val = PostRead(frame[p].id, frame[p].data.Title,
                                     frame[p].data.Content, frame[p].data.Author)

\* C6 witness: the delete landed between UpdatePost's GetByID pre-check and
\* its Update call: the pre-check passed, and ErrPostNotFound came from
\* repo.Update.
C6_Witness ==
  \E p, q \in Procs :
    /\ Done(p) /\ frame[p].svc = "UpdatePost" /\ frame[p].op = "Update"
    /\ ret[p].err = ErrPostNotFound
    /\ Done(q) /\ frame[q].svc = "DeletePost" /\ frame[q].id = frame[p].id
    /\ frame[p].id \in deleted

\* C7: Delete returns nil whether or not the id is present; on an absent id
\* it leaves the map as it is, and after it the id is absent; a GetByID of
\* an id Delete has removed returns ErrPostNotFound; DeletePost with a
\* positive id returns nil.
C7_DeleteIdempotent ==
  [][\A p \in Procs :
       /\ DeleteStep(p) =>
            /\ ret'[p].err = Nil
            /\ frame[p].id \notin DOMAIN posts'
            /\ frame[p].id \notin DOMAIN posts => posts' = posts
       /\ (GetByIDStep(p) /\ frame[p].id \in deleted) => ret'[p].err = ErrPostNotFound
       /\ (pc'[p] = "done" /\ frame'[p].svc = "DeletePost" /\ frame'[p].id > 0)
            => ret'[p].err = Nil
    ]_vars

\* C7 witness: Delete and DeletePost have both returned nil for an id that
\* was never in the store, the one after the other's return or not.
C7_Witness ==
  \E p, q \in Procs :
    /\ Done(p) /\ frame[p].svc = "DeletePost" /\ frame[p].op = "Delete"
    /\ Done(q) /\ frame[q].svc = "none" /\ frame[q].op = "Delete"
    /\ frame[p].id = frame[q].id /\ frame[p].id \notin everKeys
    /\ ret[p].err = Nil /\ ret[q].err = Nil

\* C8: Delete leaves nextID unchanged, and the identifier a Create returns
\* is strictly greater than every identifier Delete has removed.
C8_DeleteNeverReclaims ==
  [][\A p \in Procs :
       /\ DeleteStep(p) => nextID' = nextID
       /\ CreateReturnStep(p) => \A k \in deleted : ret'[p].val.ID > k
    ]_vars

\* C8 witness: create 1, delete 1, create again gives 2.
C8_Witness ==
  /\ createdIDs = << 1, 2 >>
  /\ 1 \in deleted
  /\ DOMAIN posts = {2}
  /\ \E p \in Procs : Done(p) /\ frame[p].op = "Create" /\ ret[p].val.ID = 2

\* C9: once the store is built, every key of the map is the ID of the
\* record it maps to.
C9_KeyIsRecordID ==
  Serving => \A k \in DOMAIN posts : posts[k].ID = k

\* C9 witness: the map holds a record of the bootstrap file, a created
\* record and an updated one.
C9_Witness ==
  /\ 0 \in DOMAIN posts
  /\ Len(createdIDs) = 1 /\ createdIDs[1] \in DOMAIN posts
  /\ \E p \in Procs : Done(p) /\ frame[p].op = "Update" /\ ret[p].err = Nil

\* C10: Create returns, with a nil error, a record with the caller's title,
\* content and author and a positive ID; and a GetByID of an identifier whose
\* last mutation was that Create returns the record Create returned.
C10_CreateGetRoundTrip ==
  [][\A p \in Procs :
       /\ CreateReturnStep(p) =>
            /\ ret'[p].err = Nil
            /\ ret'[p].val.Title = frame[p].data.Title
            /\ ret'[p].val.Content = frame[p].data.Content
            /\ ret'[p].val.Author = frame[p].data.Author
            /\ ret'[p].val.ID > 0
       /\ ( /\ GetByIDStep(p)
            /\ frame[p].id \in DOMAIN lastRet
            /\ lastRet[frame[p].id].by = "Create" )
          => ret'[p] = Result(lastRet[frame[p].id].post, Nil)
    ]_vars

\* C10 witness: a GetByID has returned the record a Create returned, here
\* one with an empty title.
C10_Witness ==
  \E p \in Procs :
    /\ Done(p) /\ frame[p].op = "GetByID" /\ ret[p].err = Nil
    /\ frame[p].id \in DOMAIN lastRet
    /\ lastRet[frame[p].id].by = "Create"
    /\ ret[p].val = lastRet[frame[p].id].post
    /\ ret[p].val.Title = "" /\ ret[p].val.ID = frame[p].id

\* the record (id, fields)
Replaced(id, d) == [ID |-> id, Title |-> d.Title, Content |-> d.Content, Author |-> d.Author]

\* C11: an Update of a present id goes on to replace the record; it stores
\* and returns, with a nil error, the record (id, newFields), nothing of the
\* previous record in it; and a GetByID of an identifier whose last mutation
\* was that Update returns exactly the record Update returned.
C11_UpdateReplacesWholesale ==
  [][\A p \in Procs :
       /\ (UpdateCheckStep(p) /\ frame[p].id \in DOMAIN posts) => pc'[p] = "L108"
       /\ UpdateReturnStep(p) =>
            /\ ret'[p] = Result(Replaced(frame[p].id, frame[p].data), Nil)
            /\ posts'[frame[p].id] = Replaced(frame[p].id, frame[p].data)
            /\ DOMAIN posts' = DOMAIN posts
       /\ ( /\ GetByIDStep(p)
            /\ frame[p].id \in DOMAIN lastRet
            /\ lastRet[frame[p].id].by = "Update" )
          => ret'[p] = Result(lastRet[frame[p].id].post, Nil)
    ]_vars

\* C11 witness: record 1 of the bootstrap file, (t1, c1, a1), was updated
\* with (t2, c2, a2), and a GetByID(1) after it has returned (1, t2, c2, a2).
C11_Witness ==
  /\ file = FileTwo
  /\ 1 \in DOMAIN lastRet /\ lastRet[1].by = "Update"
  /\ \E p \in Procs :
       /\ Done(p) /\ frame[p].op = "GetByID" /\ frame[p].id = 1
       /\ ret[p] = Result(PostRead(1, "t2", "c2", "a2"), Nil)

\* C12: on an id that is not in the map, GetByID returns ErrPostNotFound
\* with the zero record, Update returns ErrPostNotFound without reaching its
\* insert, and either leaves the map and nextID as they were.
C12_AbsentIsNotFound ==
  [][\A p \in Procs :
       /\ (GetByIDStep(p) /\ frame[p].id \notin DOMAIN posts) =>
            /\ ret'[p] = Result(ZeroPost, ErrPostNotFound)
            /\ posts' = posts /\ nextID' = nextID
       /\ (UpdateCheckStep(p) /\ frame[p].id \notin DOMAIN posts) =>
            /\ ret'[p] = Result(ZeroPost, ErrPostNotFound)
            /\ pc'[p] = "Unlock"
            /\ posts' = posts /\ nextID' = nextID
    ]_vars

\* C12 witness: on the empty store, an Update and a GetByID have both
\* returned ErrPostNotFound, and the store is still empty.
C12_Witness ==
  /\ file = FileEmpty /\ posts = EmptyMap /\ nextID = 1 /\ createdIDs = << >>
  /\ \E p, q \in Procs :
       /\ Done(p) /\ frame[p].op = "Update" /\ ret[p].err = ErrPostNotFound
       /\ Done(q) /\ frame[q].op = "GetByID" /\ ret[q].err = ErrPostNotFound

\* the step in which goroutine p makes a call, and the step after its result
CallStep(p) == pc[p] = "idle" /\ pc'[p] # "idle"
LeaveStep(p) == pc[p] = "done" /\ pc'[p] # "done"
\* p's service method returned before it called the repository
Rejected(p) == pc[p] = "done" /\ frame[p].svc # "none" /\ frame[p].op = "none"

\* C13: GetPostByID, UpdatePost and DeletePost called with an id <= 0
\* return at once the zero record and an error whose text is "invalid post
\* ID"; the call is no call of a repository method, it takes no lock and
\* leaves the map and nextID as they are, and so does the return from it.
C13_InvalidIDNoRepositoryCall ==
  [][\A p \in Procs :
       /\ ( /\ CallStep(p)
            /\ frame'[p].svc \in {"GetPostByID", "UpdatePost", "DeletePost"}
            /\ frame'[p].id <= 0 )
          => /\ pc'[p] = "done" /\ frame'[p].op = "none"
             /\ ret'[p].err # Nil /\ ErrorText(ret'[p].err) = InvalidIDText
             /\ ret'[p].val = ZeroPost
             /\ posts' = posts /\ nextID' = nextID /\ mutex' = mutex
       /\ (LeaveStep(p) /\ Rejected(p))
          => /\ pc'[p] = "idle"
             /\ posts' = posts /\ nextID' = nextID /\ mutex' = mutex
    ]_vars

\* C13 witness: UpdatePost(-1, valid fields) and DeletePost(0) have both
\* been refused, on a store that holds records.
C13_Witness ==
  /\ DOMAIN posts # {}
  /\ \E p, q \in Procs :
       /\ Rejected(p) /\ frame[p].svc = "UpdatePost" /\ frame[p].id = -1
       /\ Validate(frame[p].data) = Nil /\ ret[p].err = InvalidPostIDError
       /\ Rejected(q) /\ frame[q].svc = "DeletePost" /\ frame[q].id = 0
       /\ ret[q].err = NewInvalidPostID

HasEmptyField(d) == d.Title = "" \/ d.Content = "" \/ d.Author = ""
HoldsLock(p) == p \in mutex.writer \cup mutex.readers

\* C14: CreatePost, and UpdatePost with an id > 0, called with fields of
\* which one is empty return at once the zero record and the validation
\* error; the call is no call of a repository method, the goroutine holds
\* no lock when it validates, and no lock, record or nextID changes.
C14_ValidationBeforeRepository ==
  [][\A p \in Procs :
       ( /\ CallStep(p)
         /\ \/ frame'[p].svc = "CreatePost"
            \/ frame'[p].svc = "UpdatePost" /\ frame'[p].id > 0
         /\ HasEmptyField(frame'[p].data) )
       => /\ pc'[p] = "done" /\ frame'[p].op = "none"
          /\ ret'[p] = Result(ZeroPost, ValidationErrors)
          /\ ~HoldsLock(p)
          /\ posts' = posts /\ nextID' = nextID /\ mutex' = mutex
    ]_vars

\* C14 witness: CreatePost without an author and UpdatePost of a stored
\* record without a content have both been refused.
C14_Witness ==
  \E p, q \in Procs :
    /\ Rejected(p) /\ frame[p].svc = "CreatePost" /\ frame[p].data = NoAuthor
    /\ ret[p].err = ValidationErrors
    /\ Rejected(q) /\ frame[q].svc = "UpdatePost" /\ frame[q].data = NoContent
    /\ frame[q].id \in DOMAIN posts /\ ret[q].err = ValidationErrors

Responded(p, h) == pc[p] = "responded" /\ resp[p].h = h
\* the handler h of p parsed an integer id and called PostService with it
ServedID(p, h) == Responded(p, h) /\ frame[p].svc = h

\* C15: whenever Handler.GetPostByID has answered a request whose id parsed
\* to an integer <= 0, the status it wrote is 400.
C15_GetInvalidIDIs400 ==
  \A p \in Procs :
    (ServedID(p, "GetPostByID") /\ frame[p].id <= 0) => resp[p].status = StatusBadRequest

\* the step in which the handler of p writes its status
RespondStep(p) == pc[p] = "done" /\ pc'[p] = "responded"

\* C16: Handler.DeletePost, for a request whose id parsed to an integer
\* <= 0, writes the status 400, and neither the call of PostService nor the
\* answer changes the map or nextID.
C16_DeleteInvalidIDIs400 ==
  [][\A p \in Procs :
       /\ (CallStep(p) /\ frame'[p].svc = "DeletePost" /\ frame'[p].id <= 0)
          => (posts' = posts /\ nextID' = nextID)
       /\ (RespondStep(p) /\ frame[p].svc = "DeletePost" /\ frame[p].id <= 0)
          => /\ resp'[p].status = StatusBadRequest
             /\ posts' = posts /\ nextID' = nextID
    ]_vars

\* the step in which NewMapRepository returns the store it built
BootStep == phase = "start" /\ phase' = "serving"
FileIDs == {file.posts[i].ID : i \in 1..Len(file.posts)}
MaxOf(S) == CHOOSE x \in S : \A y \in S : y <= x
\* the first Create since the bootstrap returns
FirstCreateReturnStep(p) == CreateReturnStep(p) /\ Len(createdIDs) = 1

C18_ServeOnlyAfterBootstrap ==
  /\ (calls > 0 \/ \E p \in Procs : pc[p] # "idle") => phase = "serving"
  /\ phase = "serving" => (file.err = Nil /\ FileIDs \subseteq everKeys /\ nextID > 0)
  /\ file.err # Nil => phase \in {"start", "panicked"}
  /\ phase \in {"start", "panicked"} => (posts = EmptyMap /\ nextID = 0 /\ calls = 0)
  /\ phase = "panicked" => file.err # Nil

\* C18 witness: a GetPostByID request is inside GetByID on the store seeded
\* from the file with the identifiers 1 and 2.
C18_Witness ==
  /\ phase = "serving" /\ file = FileTwo /\ posts = SeedPosts(file.posts, 1, EmptyMap)
  /\ \E p \in Procs : pc[p] = "cs" /\ frame[p].svc = "GetPostByID" /\ frame[p].id = 2

\* C19: in the running service every record in the map has a positive ID
\* and a non-empty title, content and author.
C19_StoredRecordsValid ==
  Serving => \A k \in DOMAIN posts : posts[k].ID > 0 /\ ~HasEmptyField(posts[k])

\* the step in which GetAll has walked the whole map and returns
GetAllReturnStep(p) == pc[p] = "cs" /\ frame[p].op = "GetAll" /\ pc'[p] # "cs"
\* p has the result of its GetAll before and after the step
KeepsGetAllResult(p) ==
  /\ frame[p].op = "GetAll" /\ frame'[p].op = "GetAll"
  /\ pc[p] \in {"RUnlock", "done"} /\ pc'[p] \in {"RUnlock", "done"}

\* C20: GetAll returns a nil error and, at the instant of its return
\* statement, a sequence that has each record of the map once and nothing
\* else: as many entries as the map has keys, and the records of the map as
\* its entries; and whatever steps are taken while the caller holds the
\* result, a mutation of the map among them, the result stays as returned.
C20_GetAllSnapshot ==
  [][\A p \in Procs :
       /\ GetAllReturnStep(p) =>
            /\ ret'[p].err = Nil
            /\ Len(ret'[p].list) = Cardinality(DOMAIN posts)
            /\ SeqRange(ret'[p].list) = {posts[k] : k \in DOMAIN posts}
            /\ posts' = posts
       /\ KeepsGetAllResult(p) => ret'[p] = ret[p]
    ]_vars

\* C20 witness: a GetAll returned the two records of the bootstrap file;
\* since then record 1 was replaced and record 2 deleted, and the caller
\* still holds the two records as they were.
C20_Witness ==
  /\ file = FileTwo
  /\ DOMAIN posts = {1} /\ posts[1] # FileTwo.posts[1]
  /\ \E p \in Procs :
       /\ Done(p) /\ frame[p].op = "GetAll" /\ ret[p].err = Nil
       /\ ret[p].list = FileTwo.posts

\* p has called a repository method that has not returned yet
InCall(p) == pc[p] \in {"Lock", "LockWait", "RLock", "cs", "L89", "L90", "L108", "Unlock", "RUnlock"}

AtReturn(p) == pc[p] \in {"Unlock", "RUnlock"}

\* C22: GetAll, Create and Delete return a nil error whatever their input;
\* GetByID and Update return nil or ErrPostNotFound, and ErrPostNotFound
\* exactly when the id is not in the map as the method leaves it.
C22_OperationsTotal ==
  \A p \in Procs :
    /\ (pc[p] \in {"Unlock", "RUnlock", "done"} /\ frame[p].svc = "none")
         => ret[p].err \in {Nil, ErrPostNotFound}
    /\ (AtReturn(p) /\ frame[p].op \in {"GetAll", "Create", "Delete"})
         => ret[p].err = Nil
    /\ (AtReturn(p) /\ frame[p].op \in {"GetByID", "Update"})
         => (ret[p].err = ErrPostNotFound <=> frame[p].id \notin DOMAIN posts)

\* C22 witness: a Delete of an id that was never stored returns while an
\* Update of an absent id has returned ErrPostNotFound.
C22_Witness ==
  \E p, q \in Procs :
    /\ AtReturn(p) /\ frame[p].op = "Delete" /\ frame[p].id \notin everKeys
    /\ ret[p].err = Nil
    /\ Done(q) /\ frame[q].op = "Update" /\ ret[q].err = ErrPostNotFound

\* p runs GetPostByID, or UpdatePost with valid fields, for an id > 0
LooksUp(p) ==
  /\ frame[p].svc \in {"GetPostByID", "UpdatePost"}
  /\ frame[p].id > 0
  /\ frame[p].svc = "UpdatePost" => Validate(frame[p].data) = Nil

\* C23: for an id > 0 (and valid fields), a repository lookup that finds
\* the id absent makes PostService.GetPostByID and UpdatePost return
\* ErrPostNotFound itself; the handlers answer 404 for it and for nothing
\* else, and never 400 or 500 for such a request.
C23_NotFoundIs404 ==
  \A p \in Procs :
    /\ (LooksUp(p) /\ AtReturn(p) /\ frame[p].id \notin DOMAIN posts)
         => ret[p].err = ErrPostNotFound
    /\ (LooksUp(p) /\ pc[p] \in {"done", "responded"})
         => ret[p].err \in {Nil, ErrPostNotFound}
    /\ (LooksUp(p) /\ pc[p] = "responded")
         => resp[p].status = (IF ret[p].err = ErrPostNotFound THEN StatusNotFound ELSE StatusOK)
    /\ (pc[p] = "responded" /\ resp[p].status = StatusNotFound)
         => (LooksUp(p) /\ ret[p].err = ErrPostNotFound)

\* C23 witness: a GET and a PUT with valid fields, both for an id > 0 that
\* is not stored, have both been answered 404.
C23_Witness ==
  \E p, q \in Procs :
    /\ ServedID(p, "GetPostByID") /\ LooksUp(p) /\ resp[p].status = StatusNotFound
    /\ ServedID(q, "UpdatePost") /\ LooksUp(q) /\ resp[q].status = StatusNotFound

\* p's call returned in this step without a repository call or a change of
\* the store, with the error err
RefusedWith(p, err) ==
  /\ pc'[p] = "done" /\ frame'[p].op = "none"
  /\ ret'[p] = Result(ZeroPost, err)
  /\ ~HoldsLock(p)
  /\ posts' = posts /\ nextID' = nextID /\ mutex' = mutex

\* the step in which UpdatePost of p goes on from the return of GetByID
PreCheckStep(p) ==
  pc[p] = "ret" /\ frame[p].svc = "UpdatePost" /\ frame[p].op = "GetByID" /\ pc'[p] # "ret"

\* C25: PostService.UpdatePost checks in this order: an id <= 0 is refused
\* with InvalidPostIDError whatever the fields; otherwise a record with an
\* empty field is refused with the validation error whether the id is stored
\* or not, before GetByID is called; otherwise GetByID is called and its
\* ErrPostNotFound is returned; repository Update is called only after a
\* GetByID that returned nil, and nothing is changed before that.
C25_UpdatePostCheckOrder ==
  [][\A p \in Procs :
       /\ (CallStep(p) /\ frame'[p].svc = "UpdatePost")
            => IF frame'[p].id <= 0
               THEN RefusedWith(p, InvalidPostIDError)
               ELSE IF HasEmptyField(frame'[p].data)
               THEN RefusedWith(p, ValidationErrors)
               ELSE /\ frame'[p].op = "GetByID" /\ pc'[p] = "RLock"
                    /\ posts' = posts /\ nextID' = nextID /\ mutex' = mutex
       /\ PreCheckStep(p)
            => /\ ret[p].err \in {Nil, ErrPostNotFound}
               /\ ret[p].err = ErrPostNotFound => RefusedWith(p, ErrPostNotFound)
               /\ ret[p].err = Nil => frame'[p].op = "Update" /\ pc'[p] = "Lock"
               /\ posts' = posts /\ nextID' = nextID /\ mutex' = mutex
       /\ (frame'[p].svc = "UpdatePost" /\ frame'[p].op = "Update" /\ frame[p].op # "Update")
            => /\ PreCheckStep(p) /\ ret[p].err = Nil
               /\ frame[p].id > 0 /\ ~HasEmptyField(frame[p].data)
    ]_vars

\* C25 witness: an UpdatePost with id <= 0 and an empty title was refused
\* for its id, and one with an id > 0 that is not stored and an empty
\* content was refused for its fields.
C25_Witness ==
  \E p, q \in Procs :
    /\ Rejected(p) /\ frame[p].svc = "UpdatePost" /\ frame[p].id <= 0
    /\ frame[p].data = NoTitle /\ ret[p].err = InvalidPostIDError
    /\ Rejected(q) /\ frame[q].svc = "UpdatePost" /\ frame[q].id > 0
    /\ frame[q].id \notin DOMAIN posts
    /\ frame[q].data = NoContent /\ ret[q].err = ValidationErrors

\* C26: an id that Delete has removed from the map is never a key again:
\* a GetByID or an Update of it returns ErrPostNotFound and no GetAll
\* result has a record with that id, whatever Creates, Updates and Deletes
\* were run since.
C26_DeletedStaysAbsent ==
  /\ \A k \in deleted : k \in everKeys /\ k \notin DOMAIN posts
  /\ \A p \in Procs :
       /\ (AtReturn(p) /\ frame[p].op \in {"GetByID", "Update"} /\ frame[p].id \in deleted)
            => ret[p].err = ErrPostNotFound
       /\ (AtReturn(p) /\ frame[p].op = "GetAll")
            => \A i \in 1..Len(ret[p].list) : ret[p].list[i].ID \notin deleted

\* C26 witness: id 1 was deleted, a Create ran after that, and an Update of
\* id 1 returns ErrPostNotFound.
C26_Witness ==
  \E p \in Procs :
    /\ 1 \in deleted /\ createdIDs # << >> /\ createdIDs[Len(createdIDs)] > 1
    /\ AtReturn(p) /\ frame[p].op = "Update" /\ frame[p].id = 1
    /\ ret[p].err = ErrPostNotFound

\* the nextID NewMapRepository computed from the file
BootNextID == SeedNextID(file.posts)

\* C27: the identifiers Create has handed out are the bootstrap nextID and
\* its successors in order, without a gap, and nextID is the bootstrap
\* nextID plus the number of Creates that have incremented it: no other
\* operation, failed or successful, and no refused service call moves it.
C27_GapFreeIDs ==
  Serving =>
    /\ \A i \in 1..Len(createdIDs) : createdIDs[i] = BootNextID + (i - 1)
    /\ nextID = BootNextID + Len(createdIDs) - (IF MidCreate THEN 1 ELSE 0)
    /\ \A p \in Procs :
         (AtReturn(p) /\ frame[p].op = "Create")
           => /\ ret[p].val.ID = createdIDs[Len(createdIDs)]
              /\ nextID = ret[p].val.ID + 1

\* C27 witness: the second Create returns the successor of the first
\* although a refused call came in between or alongside.
C27_Witness ==
  \E p, q \in Procs :
    /\ Len(createdIDs) = 2
    /\ AtReturn(p) /\ frame[p].op = "Create" /\ ret[p].val.ID = BootNextID + 1
    /\ Rejected(q)

\* p takes a step inside the repository method op
StepOf(p, op) == frame[p].op = op /\ pc[p] # pc'[p] /\ pc[p] \notin {"idle", "done"}
\* the records at the keys other than id are the same before and after
OthersKept(id) == \A k \in (DOMAIN posts \cup DOMAIN posts') \ {id} :
                    k \in DOMAIN posts /\ k \in DOMAIN posts' /\ posts'[k] = posts[k]
StoreKept == posts' = posts /\ nextID' = nextID

\* C28: the insert of Create adds the key nextID, which was not a key, and
\* keeps every record there was; the write of Update keeps the key set and
\* every record but the one at its id; Delete removes its id if it is a key
\* and keeps the rest; no other statement of a repository method changes
\* the map, and GetByID and GetAll change neither the map nor nextID.
C28_OwnKeyOnly ==
  [][\A p \in Procs :
       /\ (pc[p] = "L89" /\ pc'[p] # "L89")
            => /\ nextID \notin DOMAIN posts
               /\ DOMAIN posts' = DOMAIN posts \cup {nextID}
               /\ OthersKept(nextID)
       /\ (StepOf(p, "Create") /\ pc[p] # "L89") => posts' = posts
       /\ UpdateReturnStep(p)
            => DOMAIN posts' = DOMAIN posts /\ OthersKept(frame[p].id) /\ nextID' = nextID
       /\ (StepOf(p, "Update") /\ pc[p] # "L108") => StoreKept
       /\ DeleteStep(p)
            => /\ DOMAIN posts' = DOMAIN posts \ {frame[p].id}
               /\ OthersKept(frame[p].id) /\ nextID' = nextID
       /\ (StepOf(p, "Delete") /\ pc[p] # "cs") => StoreKept
       /\ (StepOf(p, "GetByID") \/ StepOf(p, "GetAll")) => StoreKept
    ]_vars

\* C28 witness: with other records in the map, a Create has inserted, an
\* Update has replaced a record and a Delete has removed one.
C28_Witness ==
  /\ Len(createdIDs) = 1 /\ deleted # {}
  /\ \E k \in DOMAIN posts : k \in DOMAIN lastRet /\ lastRet[k].by = "Update"
  /\ Cardinality(DOMAIN posts) >= 2

\* UpdatePost of p is between the return of its GetByID and the Lock of
\* its Update
BetweenCheckAndUpdate(p) ==
  /\ frame[p].svc = "UpdatePost"
  /\ \/ pc[p] = "ret"
     \/ pc[p] = "Lock" /\ frame[p].op = "Update"

\* C29: a goroutine is in the mutex (as the writer, or as a reader) only
\* between the Lock or RLock of a repository method and its return; when
\* no repository method is running the mutex is free; UpdatePost is not in
\* the mutex between its GetByID and its Update.
C29_LockOnlyInsideRepository ==
  /\ \A p \in Procs :
       /\ HoldsLock(p) => (InCall(p) /\ pc[p] \notin {"Lock", "RLock"})
       /\ InCS(p) => HoldsLock(p)
       /\ BetweenCheckAndUpdate(p) => ~HoldsLock(p)
  /\ (\A p \in Procs : ~InCall(p)) => (mutex.writer = {} /\ mutex.readers = {})

\* C29 witness: UpdatePost has passed its GetByID and has not locked for
\* its Update yet, and a Delete of the same id is in the mutex meanwhile.
C29_Witness ==
  \E p, q \in Procs :
    /\ BetweenCheckAndUpdate(p) /\ pc[p] = "Lock"
    /\ InCS(q) /\ frame[q].op = "Delete" /\ q \in mutex.writer
    /\ frame[q].id = frame[p].id

\* the tokens of message s cut after the positions of cuts
TokenStarts(s, cuts) == {1} \cup {c + 1 : c \in cuts}
TokenEnd(s, cuts, a) ==
  IF \E c \in cuts : c >= a THEN CHOOSE c \in cuts : c >= a /\ \A e \in cuts : e >= a => c <= e
  ELSE Len(s)
\* a token is a number from 1 to 26 written without a leading zero
IsLetterCode(t) == t[1] # "0" /\ DigitsVal(t, 1, 0) \in 1..26
\* the number of ways to cut s into such tokens
Splits(s) ==
  Cardinality({cuts \in SUBSET (1..(Len(s) - 1)) :
                 \A a \in TokenStarts(s, cuts) :
                   IsLetterCode(SubSeq(s, a, TokenEnd(s, cuts, a)))})
\* s has a '0' that no '1' or '2' precedes
HasStrayZero(s) ==
  \E i \in 1..Len(s) : s[i] = "0" /\ (i = 1 \/ s[i - 1] \notin {"1", "2"})

\* C24: for a non-empty message of digits, decode returns the number of
\* ways to cut the message into numbers from 1 to 26 written without a
\* leading zero, which is 0 when the message has a '0' that no '1' or '2'
\* precedes.
C24_DecodeCountsSplits ==
  (dec.pc = "returned" /\ dec.message # << >>)
    => /\ dec.result = Splits(dec.message)
       /\ HasStrayZero(dec.message) => dec.result = 0

\* C24 witness: decode("2101") has returned 1.
C24_Witness ==
  dec.pc = "returned" /\ dec.message = << "2", "1", "0", "1" >> /\ dec.result = 1

====
